---- MODULE Spec2Model ----
(***************************************************************************)
(* Model of data/iqfeed_provider.py (class IQFeedProvider): the connection *)
(* lifecycle, the contract-chain walk of download_instrument, the table    *)
(* downloader download_table with its exception handlers, the currency and *)
(* spot wrappers and the drop operations, over a Store modelled as the set *)
(* of keys (library, quote type, symbol) that hold a table.                *)
(***************************************************************************)
EXTENDS Integers, Sequences, FiniteSets

(* ---------------------------- bounds ---------------------------------- *)

\* Last contract year the walk is followed to.
MaxYear == 2021

(* ------------------------ program constants --------------------------- *)

\* The threshold in `while fail_count <= 12`.
FailLimit == 12

\* datetime.datetime.now().year, fixed for the duration of a walk.
CurYear == 2020

\* self.library, set by __init__.
library == <<"i", "q", "f", "e", "e", "d">>

(* ------------------------- domain objects ----------------------------- *)

\* Strings are sequences of characters, so that key composition is real
\* concatenation.
CME == <<"C", "M", "E">>
ES == <<"E", "S">>
AtES == <<"@", "E", "S">>

\* Instruments the walk is run for.  The first has the same exchange and
\* symbol under both vendors' names, the second carries a vendor-specific
\* iqfeed symbol, as the instrument definitions of the project do.
Instruments ==
  { [name |-> "same", exchange |-> CME, quandl_database |-> CME,
     iqfeed_symbol |-> ES, quandl_symbol |-> ES,
     first_contract |-> 201911, roll_last |-> 202103],
    [name |-> "differ", exchange |-> CME, quandl_database |-> CME,
     iqfeed_symbol |-> AtES, quandl_symbol |-> ES,
     first_contract |-> 202002, roll_last |-> 202011] }

CURRFX == <<"C", "U", "R", "R", "F", "X">>

\* Currencies: a symmetric pair and an ordinary one.
Currencies ==
  { [quandl_database |-> CURRFX, quandl_symbol |-> <<"U", "S", "D", "U", "S", "D">>],
    [quandl_database |-> CURRFX, quandl_symbol |-> <<"E", "U", "R", "U", "S", "D">>] }

\* Spot series.
Spots ==
  { [quandl_database |-> <<"S", "P">>, quandl_symbol |-> <<"V", "I", "X">>] }

NoInstrument == [name |-> "none"]

(* --------------------------- pure helpers ----------------------------- *)

\* int(c/100): the year of a numeric contract label.
Year(c) == c \div 100

\* The condition of line 67 under which a failure is counted.
YearGate(c) == Year(c) >= CurYear

\* A loop test that ends the walk one failure earlier.
LoopCondStrict(fc) == fc < FailLimit

\* The loop test of the walk.
LoopCond(fc) == fc <= FailLimit

\* instrument.next_contract: the successor label, month after month, rolling
\* over from December to January of the next year.
next_contract(c) == IF c % 100 = 12 THEN (Year(c) + 1) * 100 + 1 ELSE c + 1

\* '_'.join([exchange, db_symbol]) in download_table.
store_symbol(exchange, db_symbol) == exchange \o <<"_">> \o db_symbol

\* database + '_' + symbol in drop_symbol.
drop_key(database, symbol) == database \o <<"_">> \o symbol

\* Store(library, q_type, symbol): the address of a table.
StoreKey(q_type, symbol) == [library |-> library, q_type |-> q_type, symbol |-> symbol]

\* The short-circuit test of download_currency.
Symmetric(currency) ==
  SubSeq(currency.quandl_symbol, 1, 3) = SubSeq(currency.quandl_symbol, 4, 6)

\* self.quotes_formats, set by __init__.
quotes_formats(q_type) ==
  CASE q_type = "futures" -> "_format_future"
    [] q_type = "currency" -> "_format_currency"
    [] q_type = "others" -> "_format_other"

(* ------------------------ vendor and store outcomes ------------------- *)

\* What one table download can meet: the vendor's answer to
\* request_daily_data, then the formatter, then Store.update.  A part that
\* is not reached is "-".
Outcomes ==
  { [vendor |-> "NoDataError", fmt |-> "-", st |-> "-"],
    [vendor |-> "UnauthorizedError", fmt |-> "-", st |-> "-"],
    [vendor |-> "OSError", fmt |-> "-", st |-> "-"],
    [vendor |-> "rows", fmt |-> "raise", st |-> "-"],
    [vendor |-> "rows", fmt |-> "ok", st |-> "raise"],
    [vendor |-> "rows", fmt |-> "ok", st |-> "ok"] }

\* A session that is not connected answers no request.
OutcomesOn(conn) ==
  IF conn = "connected" THEN Outcomes
  ELSE {o \in Outcomes : o.vendor = "OSError"}

\* The exception raised inside the try block of download_table, "none" when
\* the block runs to its end.
Raised(instrument, conn, out) ==
  IF conn = "unset" THEN "AttributeError"
  ELSE IF out.vendor # "rows" THEN out.vendor
  ELSE IF instrument = NoInstrument THEN "AttributeError"
  ELSE IF out.fmt = "raise" THEN "ValueError"
  ELSE IF out.st = "raise" THEN "StoreError"
  ELSE "none"

\* A handler that catches the vendor's two errors only.
ExceptHandlerVendorOnly(e) ==
  IF e \in {"NoDataError", "UnauthorizedError"} THEN "none"
  ELSE e

\* The two except clauses of download_table: the exception that leaves the
\* function, "none" when it is caught and turned into a False return.
ExceptHandler(e) ==
  IF e \in {"NoDataError", "UnauthorizedError"} THEN "none"
  ELSE "none"

\* No table download was made.
NoTable ==
  [q_type |-> "none", out |-> [vendor |-> "-", fmt |-> "-", st |-> "-"],
   vendor |-> "-", requested |-> 0, formatter |-> "none", updates |-> 0,
   key |-> <<>>, raised |-> "none", ret |-> FALSE, exc |-> "none"]

\* download_table(q_type, database, symbol, db_symbol, **kwargs) on a history
\* session in state conn, meeting outcome out: what it requested, applied,
\* wrote and returned.  instrument is kwargs.get('instrument').
download_table(q_type, instrument, db_symbol, conn, out) ==
  LET e == Raised(instrument, conn, out)
      requested == conn # "unset"
      keyed == requested /\ out.vendor = "rows" /\ instrument # NoInstrument
      formatted == keyed /\ out.fmt = "ok"
  IN [q_type |-> q_type,
      out |-> out,
      vendor |-> IF requested THEN out.vendor ELSE "-",
      requested |-> IF requested THEN 1 ELSE 0,
      formatter |-> IF formatted THEN quotes_formats(q_type) ELSE "none",
      updates |-> IF e = "none" THEN 1 ELSE 0,
      key |-> IF keyed THEN store_symbol(instrument.exchange, db_symbol) ELSE <<>>,
      raised |-> e,
      ret |-> (e = "none"),
      exc |-> IF e = "none" THEN "none" ELSE ExceptHandler(e)]

\* download_contract(instrument, cont_name).
download_contract(instrument, conn, out) ==
  download_table("futures", instrument, instrument.iqfeed_symbol, conn, out)

\* The store after a table download.
Updated(st, r) ==
  IF r.updates = 1 THEN st \cup {StoreKey(r.q_type, r.key)} ELSE st

\* connect(): the sessions it leaves and how it ends, given whether each
\* vendor session can be established.  The vendor library's connect raises
\* when it cannot; the only value connect() itself returns is True.
connect(hist, lookup, hres, lres) ==
  IF hres # "ok"
  THEN [hist |-> "closed", lookup |-> lookup, ok |-> TRUE,
        exc |-> "ConnectionRefusedError"]
  ELSE IF lres # "ok"
  THEN [hist |-> "connected", lookup |-> "closed", ok |-> TRUE,
        exc |-> "ConnectionRefusedError"]
  ELSE [hist |-> "connected", lookup |-> "connected", ok |-> TRUE,
        exc |-> "none"]

(* ------------------------------ state --------------------------------- *)

VARIABLES
  pc,          \* position: "idle", inside the walk ("while", "retry",
               \* "advance"), or how the last operation ended
  hist_conn,   \* self.hist_conn: "unset", "connected" or "closed"
  lookup_conn, \* self.lookup_conn, likewise
  established, \* whether the last connect() established both sessions
  inst,        \* the instrument of the walk
  c,           \* the contract label of the walk
  cIsStr,      \* whether c is a str (the starting label of a full download)
  fail_count,  \* the walk's failure counter
  store,       \* the keys that hold a table
  op,          \* the last public operation called and its argument
  ret,         \* what it returned, when it returned
  exc,         \* the exception it raised, "none" when it returned
  last,        \* the last download_table call of that operation
  call         \* the last download_contract call of the walk

vars == <<pc, hist_conn, lookup_conn, established, inst, c, cIsStr,
          fail_count, store, op, ret, exc, last, call>>

NoCall == [label |-> 0, attempt |-> 0, fc |-> 0, ok |-> FALSE, prev |-> 0]

NoOp == [name |-> "none", arg |-> NoInstrument]

\* No operation is in progress: the provider is single-threaded.
Idle == pc \in {"idle", "returned", "raised"}

Init ==
  /\ pc = "idle"
  /\ hist_conn = "unset"
  /\ lookup_conn = "unset"
  /\ established = FALSE
  /\ inst = NoInstrument
  /\ c = 0
  /\ cIsStr = FALSE
  /\ fail_count = 0
  /\ store = {}
  /\ op = NoOp
  /\ ret = FALSE
  /\ exc = "none"
  /\ last = NoTable
  /\ call = NoCall

(* ---------------------------- operations ------------------------------ *)

\* connect() called by the user of the provider.
Connect(hres, lres) ==
  LET r == connect(hist_conn, lookup_conn, hres, lres) IN
  /\ Idle
  /\ hist_conn' = r.hist
  /\ lookup_conn' = r.lookup
  /\ established' = (r.exc = "none")
  /\ op' = [name |-> "connect", arg |-> NoInstrument]
  /\ ret' = (r.exc = "none" /\ r.ok)
  /\ exc' = r.exc
  /\ pc' = IF r.exc = "none" THEN "returned" ELSE "raised"
  /\ last' = NoTable
  /\ UNCHANGED <<inst, c, cIsStr, fail_count, store, call>>

\* disconnect() called by the user of the provider.
Disconnect ==
  /\ Idle
  /\ op' = [name |-> "disconnect", arg |-> NoInstrument]
  /\ last' = NoTable
  /\ ret' = FALSE
  /\ IF hist_conn = "unset"
     THEN /\ exc' = "AttributeError"
          /\ pc' = "raised"
          /\ UNCHANGED <<hist_conn, lookup_conn>>
     ELSE IF lookup_conn = "unset"
     THEN /\ hist_conn' = "closed"
          /\ exc' = "AttributeError"
          /\ pc' = "raised"
          /\ UNCHANGED lookup_conn
     ELSE /\ hist_conn' = "closed"
          /\ lookup_conn' = "closed"
          /\ exc' = "none"
          /\ pc' = "returned"
  /\ UNCHANGED <<established, inst, c, cIsStr, fail_count, store, call>>

\* download_instrument, from its call to the first loop test: connect, then
\* the starting label.
DownloadInstrument(i, recent, hres, lres) ==
  LET r == connect(hist_conn, lookup_conn, hres, lres) IN
  /\ Idle
  /\ hist_conn' = r.hist
  /\ lookup_conn' = r.lookup
  /\ established' = (r.exc = "none")
  /\ op' = [name |-> "download_instrument", arg |-> i]
  /\ last' = NoTable
  /\ call' = NoCall
  /\ ret' = FALSE
  /\ inst' = i
  /\ IF r.exc # "none"
     THEN /\ exc' = r.exc
          /\ pc' = "raised"
          /\ UNCHANGED <<c, cIsStr, fail_count>>
     ELSE IF ~r.ok
     THEN /\ exc' = "ConnectionException"
          /\ pc' = "raised"
          /\ UNCHANGED <<c, cIsStr, fail_count>>
     ELSE /\ exc' = "none"
          /\ c' = IF recent THEN i.roll_last - 100 ELSE i.first_contract
          /\ cIsStr' = ~recent
          /\ fail_count' = 0
          /\ pc' = "while"
  /\ UNCHANGED store

\* The loop test passing and the first download of the label c, up to the
\* count of a failure.
FirstAttempt(out) ==
  LET r == download_contract(inst, hist_conn, out) IN
  /\ pc = "while"
  /\ LoopCond(fail_count)
  /\ out \in OutcomesOn(hist_conn)
  /\ last' = r
  /\ store' = Updated(store, r)
  /\ call' = [label |-> c, attempt |-> 1, fc |-> fail_count, ok |-> r.ret,
              prev |-> call.label]
  /\ IF r.exc # "none"
     THEN /\ exc' = r.exc
          /\ pc' = "raised"
          /\ UNCHANGED fail_count
     ELSE IF r.ret
     THEN /\ fail_count' = 0
          /\ pc' = "advance"
          /\ UNCHANGED exc
     ELSE IF cIsStr
     THEN /\ exc' = "TypeError"
          /\ pc' = "raised"
          /\ UNCHANGED fail_count
     ELSE /\ fail_count' = IF YearGate(c) THEN fail_count + 1 ELSE fail_count
          /\ pc' = "retry"
          /\ UNCHANGED exc
  /\ UNCHANGED <<hist_conn, lookup_conn, established, inst, c, cIsStr, op, ret>>

\* The one more download of the label after a failure; its result is not
\* looked at.
Retry(out) ==
  LET r == download_contract(inst, hist_conn, out) IN
  /\ pc = "retry"
  /\ out \in OutcomesOn(hist_conn)
  /\ last' = r
  /\ store' = Updated(store, r)
  /\ call' = [label |-> c, attempt |-> 2, fc |-> fail_count, ok |-> r.ret,
              prev |-> call.prev]
  /\ IF r.exc # "none"
     THEN /\ exc' = r.exc
          /\ pc' = "raised"
     ELSE /\ pc' = "advance"
          /\ UNCHANGED exc
  /\ UNCHANGED <<hist_conn, lookup_conn, established, inst, c, cIsStr,
                 fail_count, op, ret>>

\* c = instrument.next_contract(c), back to the loop test.  The walk is
\* followed up to the last month of MaxYear.
Advance ==
  /\ pc = "advance"
  /\ Year(next_contract(c)) <= MaxYear
  /\ c' = next_contract(c)
  /\ cIsStr' = FALSE
  /\ pc' = "while"
  /\ UNCHANGED <<hist_conn, lookup_conn, established, inst, fail_count,
                 store, op, ret, exc, last, call>>

\* The loop test failing: disconnect and return True.
EndWalk ==
  /\ pc = "while"
  /\ ~LoopCond(fail_count)
  /\ hist_conn' = "closed"
  /\ lookup_conn' = "closed"
  /\ ret' = TRUE
  /\ pc' = "returned"
  /\ UNCHANGED <<established, inst, c, cIsStr, fail_count, store, op, exc,
                 last, call>>

\* download_currency(currency).
DownloadCurrency(currency, out) ==
  LET r == IF Symmetric(currency) THEN NoTable
           ELSE download_table("currency", NoInstrument,
                               currency.quandl_symbol, hist_conn, out) IN
  /\ Idle
  /\ out \in OutcomesOn(hist_conn)
  /\ op' = [name |-> "download_currency", arg |-> currency]
  /\ last' = r
  /\ store' = Updated(store, r)
  /\ ret' = IF Symmetric(currency) THEN TRUE ELSE r.ret
  /\ exc' = r.exc
  /\ pc' = IF r.exc = "none" THEN "returned" ELSE "raised"
  /\ UNCHANGED <<hist_conn, lookup_conn, established, inst, c, cIsStr,
                 fail_count, call>>

\* download_spot(spot).
DownloadSpot(spot, out) ==
  LET r == download_table("others", NoInstrument, spot.quandl_symbol,
                          hist_conn, out) IN
  /\ Idle
  /\ out \in OutcomesOn(hist_conn)
  /\ op' = [name |-> "download_spot", arg |-> spot]
  /\ last' = r
  /\ store' = Updated(store, r)
  /\ ret' = r.ret
  /\ exc' = r.exc
  /\ pc' = IF r.exc = "none" THEN "returned" ELSE "raised"
  /\ UNCHANGED <<hist_conn, lookup_conn, established, inst, c, cIsStr,
                 fail_count, call>>

\* drop_symbol(q_type, database, symbol): the store after the delete.
drop_symbol(st, q_type, database, symbol) ==
  st \ {StoreKey(q_type, drop_key(database, symbol))}

\* drop_instrument(instrument).
DropInstrument(i) ==
  /\ Idle
  /\ op' = [name |-> "drop_instrument", arg |-> i]
  /\ store' = drop_symbol(store, "futures", i.quandl_database, i.quandl_symbol)
  /\ last' = NoTable
  /\ ret' = FALSE
  /\ exc' = "none"
  /\ pc' = "returned"
  /\ UNCHANGED <<hist_conn, lookup_conn, established, inst, c, cIsStr,
                 fail_count, call>>

\* drop_currency(currency).
DropCurrency(currency) ==
  /\ Idle
  /\ op' = [name |-> "drop_currency", arg |-> currency]
  /\ store' = drop_symbol(store, "currency", currency.quandl_database,
                          currency.quandl_symbol)
  /\ last' = NoTable
  /\ ret' = FALSE
  /\ exc' = "none"
  /\ pc' = "returned"
  /\ UNCHANGED <<hist_conn, lookup_conn, established, inst, c, cIsStr,
                 fail_count, call>>

ConnectResults == {"ok", "refused"}

Next ==
  \/ \E hres \in ConnectResults, lres \in ConnectResults : Connect(hres, lres)
  \/ Disconnect
  \/ \E i \in Instruments, recent \in BOOLEAN,
        hres \in ConnectResults, lres \in ConnectResults :
       DownloadInstrument(i, recent, hres, lres)
  \/ \E out \in Outcomes : FirstAttempt(out)
  \/ \E out \in Outcomes : Retry(out)
  \/ Advance
  \/ EndWalk
  \/ \E cur \in Currencies, out \in Outcomes : DownloadCurrency(cur, out)
  \/ \E s \in Spots, out \in Outcomes : DownloadSpot(s, out)
  \/ \E i \in Instruments : DropInstrument(i)
  \/ \E cur \in Currencies : DropCurrency(cur)

Spec == Init /\ [][Next]_vars

(* ------------------------------ claims -------------------------------- *)

\* download_instrument has returned.
WalkReturned == op.name = "download_instrument" /\ pc = "returned"

\* download_instrument is inside its loop.
InWalk == pc \in {"while", "retry", "advance"}

\* C1, as stated: the walk stops exactly when fail_count has reached 12: no
\* download_contract call for a further label is issued once fail_count has
\* reached 12, and download_instrument does not leave the loop and return
\* while fail_count is below 12.  (The re-download of the label whose failure
\* was just counted is not held against the statement.)
C1_StopsAtTwelve ==
  /\ call.attempt = 1 => call.fc < FailLimit
  /\ WalkReturned => fail_count >= FailLimit

\* C1, amended: the walk stops exactly when fail_count has passed 12, that
\* is reached 13: the first download of a label is issued only with
\* fail_count at most 12, the only call issued at 13 is the re-download of
\* the label whose failure raised the count to 13, and download_instrument
\* reaches its disconnect and return only with fail_count equal to 13.
C1_StopsAfterTwelve ==
  /\ fail_count <= FailLimit + 1
  /\ call.attempt = 1 => call.fc <= FailLimit
  /\ call.attempt = 2 => call.fc <= FailLimit + 1
  /\ WalkReturned => fail_count = FailLimit + 1

\* Witness of C1: a walk that returned after a first download was issued
\* with twelve failures counted and failed in its turn.
C1_Witness ==
  /\ WalkReturned
  /\ fail_count = FailLimit + 1
  /\ call.attempt = 2
  /\ call.fc = FailLimit + 1

\* C2: fail_count is 0 whenever the walk moves on to the next label after a
\* download_contract call for the current label returned success, be it the
\* first attempt or the re-download.
C2_ResetOnAnySuccess ==
  (pc = "advance" /\ call.ok) => fail_count = 0

\* C3: a no-data or unauthorized answer of the vendor gives a False result
\* with no Store.update and does not abort the walk, for every label of the
\* walk including the starting one in both modes.
C3_NoDataContinues ==
  (op.name = "download_instrument"
     /\ last.vendor \in {"NoDataError", "UnauthorizedError"})
  => /\ ~last.ret
     /\ last.updates = 0
     /\ pc # "raised"

\* C4: when a vendor session cannot be established, download_instrument
\* raises ConnectionException, having made no request and no Store.update.
C4_ConnectionException ==
  (op.name = "download_instrument" /\ ~established)
  => /\ pc = "raised"
     /\ exc = "ConnectionException"
     /\ last = NoTable

\* C5: the walk runs between connect and disconnect: inside the loop both
\* sessions are connected, and once control has left download_instrument
\* after a successful connect, by return or by exception, both sessions
\* have been disconnected.
C5_ConnectBracket ==
  /\ InWalk => (hist_conn = "connected" /\ lookup_conn = "connected")
  /\ (op.name = "download_instrument" /\ established /\ Idle)
     => (hist_conn = "closed" /\ lookup_conn = "closed")

\* C6: no exception leaves download_table: whatever the quote type, the
\* vendor's answer, the formatter and the store write do, the call returns a
\* boolean, True exactly when Store.update completed, and the operation that
\* made the call does not end with an exception raised inside it.
C6_NoExceptionEscapes ==
  last.q_type # "none"
  => /\ last.exc = "none"
     /\ last.ret \in BOOLEAN
     /\ last.ret <=> last.updates = 1
     /\ last.ret => StoreKey(last.q_type, last.key) \in store
     /\ pc = "raised" => exc # last.raised

\* Witness of C6: table downloads in which the store write, the formatter
\* and the vendor request raised were each turned into a False return.
C6_Witness ==
  /\ last.q_type = "futures"
  /\ last.raised = "StoreError"
  /\ ~last.ret
  /\ last.exc = "none"
  /\ pc = "retry"

\* C7: the labels passed to download_contract follow the successor order,
\* none skipped and none taken up again, and when the walk leaves a label it
\* has requested it once if the first attempt succeeded and twice if the
\* first attempt failed.
C7_SuccessorOrder ==
  /\ call.attempt # 0 => (call.prev = 0 \/ call.label = next_contract(call.prev))
  /\ pc \in {"retry", "advance"} => call.label = c
  /\ (pc = "advance" \/ (op.name = "download_instrument" /\ pc = "raised"
                           /\ call.attempt # 0))
     => ((call.attempt = 1 /\ call.ok) \/ call.attempt = 2)

\* C8: for each quote type, a download_table call whose request returns
\* rows, with the formatter and the store working, applies the formatter of
\* the quote type, makes one Store.update under the composed key and returns
\* True.
C8_RowsAreStored ==
  (last.q_type # "none" /\ last.vendor = "rows"
     /\ last.out.fmt = "ok" /\ last.out.st = "ok")
  => /\ last.ret
     /\ last.updates = 1
     /\ last.formatter = quotes_formats(last.q_type)
     /\ StoreKey(last.q_type, last.key) \in store

\* C9: download_currency returns success with no vendor request and no
\* Store.update for a symmetric pair, and issues exactly one vendor request
\* for any other pair.
C9_CurrencyShortCircuit ==
  op.name = "download_currency"
  => IF Symmetric(op.arg)
     THEN ret /\ pc = "returned" /\ last = NoTable
     ELSE last.requested = 1

\* C10: after drop_instrument no futures table written by download_instrument
\* for that instrument remains: the key drop_symbol deletes is the key
\* download_table stored under.
C10_DownloadDropRoundTrip ==
  op.name = "drop_instrument"
  => StoreKey("futures", store_symbol(op.arg.exchange, op.arg.iqfeed_symbol))
       \notin store

====
